---- MODULE Spec2Model ----
(***************************************************************************)
(* State-machine model of mastermind.py: the Mastermind code engine        *)
(* (reset, checkGuess, __generateNewCode, __splitGuess), the session loop  *)
(* play() and the command-line startup block.                              *)
(*                                                                         *)
(* Text is modelled as a sequence of one-character strings, so that        *)
(* strip(), split(), isdigit(), int(), lower() and startswith() are        *)
(* computed character by character as Python computes them.                *)
(***************************************************************************)
EXTENDS Integers, Sequences, FiniteSets, TLC

VARIABLES
    pc,               \* position of the process: "main", "play", "loop",
                      \* "AwaitingGuess", "handle", "Quitting", "exit2"
    args,             \* sys.argv[1:]
    count,            \* play()'s count
    maxDigit,         \* play()'s maxDigit
    numCombinations,  \* play()'s numCombinations
    created,          \* TRUE once the Mastermind instance exists
    selfCount,        \* Mastermind.__count
    selfMaxDigit,     \* Mastermind.__maxDigit
    numGuesses,       \* Mastermind.__numGuesses
    code,             \* Mastermind.__code
    prompt,           \* play()'s prompt, the text last shown by raw_input
    guess,            \* play()'s guess, the line being handled
    numCorrect,       \* play()'s numCorrect in the current iteration
    out,              \* what was printed since the last line was read
    exitCode          \* the exit status of the process, Running until it ends

vars == <<pc, args, count, maxDigit, numCombinations, created, selfCount,
          selfMaxDigit, numGuesses, code, prompt, guess, numCorrect, out,
          exitCode>>

(***************************************************************************)
(* Bounds of the model.                                                    *)
(***************************************************************************)
\* every line over LineChars of at most this length is a possible input
MaxLineLen == 2
\* the player makes at most this many counted guesses per game
MaxGuesses == 2
\* random.random() is drawn from {0/RandSteps, ..., (RandSteps-1)/RandSteps}
RandSteps == 10

(***************************************************************************)
(* Class variables.                                                        *)
(***************************************************************************)
DefaultCount == 4
DefaultMaxDigit == 4

\* numCorrect before checkGuess has been called in the iteration
Unbound == -2

\* exitCode while the process has not ended
Running == -1

(***************************************************************************)
(* Python string primitives.                                               *)
(***************************************************************************)
DigitChars == <<"0", "1", "2", "3", "4", "5", "6", "7", "8", "9">>

Whitespace == {" ", "\t", "\n", "\r", "\f"}

IsDigitChar(c) == \E i \in 1..10 : DigitChars[i] = c

DigitVal(c) == (CHOOSE i \in 1..10 : DigitChars[i] = c) - 1

\* str.isdigit(): every character is a digit and there is at least one
IsDigit(s) == Len(s) > 0 /\ \A i \in 1..Len(s) : IsDigitChar(s[i])

\* int(s) for a string of decimal digits
RECURSIVE IntOf(_)
IntOf(s) ==
    IF Len(s) = 0 THEN 0
    ELSE IntOf(SubSeq(s, 1, Len(s) - 1)) * 10 + DigitVal(s[Len(s)])

\* "%d" % n for n >= 0
RECURSIVE FormatInt(_)
FormatInt(n) ==
    IF n < 10 THEN <<DigitChars[n + 1]>>
    ELSE Append(FormatInt(n \div 10), DigitChars[(n % 10) + 1])

RECURSIVE LStrip(_)
LStrip(s) ==
    IF Len(s) > 0 /\ s[1] \in Whitespace THEN LStrip(Tail(s)) ELSE s

RECURSIVE RStrip(_)
RStrip(s) ==
    IF Len(s) > 0 /\ s[Len(s)] \in Whitespace
    THEN RStrip(SubSeq(s, 1, Len(s) - 1)) ELSE s

\* str.strip()
Strip(s) == RStrip(LStrip(s))

\* c in s
Contains(s, c) == \E i \in 1..Len(s) : s[i] = c

\* the leading run of non-whitespace characters of s
RECURSIVE FirstWord(_)
FirstWord(s) ==
    IF Len(s) = 0 \/ s[1] \in Whitespace THEN <<>>
    ELSE <<s[1]>> \o FirstWord(Tail(s))

\* str.split(): the maximal runs of non-whitespace characters
RECURSIVE Split(_)
Split(s) ==
    LET t == LStrip(s)
        w == FirstWord(t)
    IN  IF Len(t) = 0 THEN <<>>
        ELSE <<w>> \o Split(SubSeq(t, Len(w) + 1, Len(t)))

\* list(s): one one-character string per character
List(s) == [i \in 1..Len(s) |-> <<s[i]>>]

LowerChar(c) ==
    CASE c = "Q" -> "q" [] c = "U" -> "u" [] c = "I" -> "i"
      [] c = "T" -> "t" [] c = "E" -> "e" [] c = "X" -> "x"
      [] OTHER -> c

\* str.lower()
Lower(s) == [i \in 1..Len(s) |-> LowerChar(s[i])]

\* s.startswith(p)
StartsWith(s, p) == Len(s) >= Len(p) /\ SubSeq(s, 1, Len(p)) = p

\* c * n
Repeat(c, n) == [i \in 1..n |-> c]

RECURSIVE Pow(_, _)
Pow(b, e) == IF e <= 0 THEN 1 ELSE b * Pow(b, e - 1)

(***************************************************************************)
(* Mastermind: the code engine.                                            *)
(***************************************************************************)
\* variant: round() in place of int()
RandomDigitsRounded(md) ==
    {1 + ((2 * r * md + RandSteps) \div (2 * RandSteps)) :
        r \in 0..(RandSteps - 1)}

\* 1 + int(random.random() * maxDigit), over every value random() can take
RandomDigits(md) == {1 + ((r * md) \div RandSteps) : r \in 0..(RandSteps - 1)}

\* the lists __generateNewCode can return
GenerateNewCode(cnt, md) == [1..cnt -> RandomDigits(md)]

\* variant: any whitespace character selects the split
TokensAnyWhitespace(g) ==
    LET strippedGuess == Strip(g)
    IN  IF \E i \in 1..Len(strippedGuess) : strippedGuess[i] \in Whitespace
        THEN Split(strippedGuess)
        ELSE List(g)

\* variant: without spaces the whole text is taken as one token
TokensWholeString(g) ==
    LET strippedGuess == Strip(g)
    IN  IF Contains(strippedGuess, " ") THEN Split(strippedGuess)
        ELSE <<g>>

\* variant: the space is looked for in the text as typed, not stripped
TokensSpaceInRaw(g) ==
    LET strippedGuess == Strip(g)
    IN  IF Contains(g, " ") THEN Split(strippedGuess)
        ELSE List(g)

\* the token list of __splitGuess
Tokens(g) ==
    LET strippedGuess == Strip(g)
    IN  IF Contains(strippedGuess, " ") THEN Split(strippedGuess)
        ELSE List(g)

Min(a, b) == IF a < b THEN a ELSE b

\* variant: a token with a leading zero is not taken
InRangeNoLeadingZero(x, md) ==
    IsDigit(x) /\ x[1] # "0" /\ 0 < IntOf(x) /\ IntOf(x) <= md

\* the filter of __splitGuess
InRange(x, md) == IsDigit(x) /\ 0 < IntOf(x) /\ IntOf(x) <= md

\* variant: a digit token out of range is clamped into 1..maxDigit
RECURSIVE FilterTokensClamped(_, _)
FilterTokensClamped(toks, md) ==
    IF Len(toks) = 0 THEN <<>>
    ELSE (IF IsDigit(Head(toks))
          THEN <<IF IntOf(Head(toks)) < 1 THEN 1
                 ELSE Min(IntOf(Head(toks)), md)>>
          ELSE <<>>)
         \o FilterTokensClamped(Tail(toks), md)

RECURSIVE FilterTokens(_, _)
FilterTokens(toks, md) ==
    IF Len(toks) = 0 THEN <<>>
    ELSE (IF InRange(Head(toks), md) THEN <<IntOf(Head(toks))>> ELSE <<>>)
         \o FilterTokens(Tail(toks), md)

SplitGuess(g, md) == FilterTokens(Tokens(g), md)

\* variant: a digit counts when it occurs anywhere in the code
MatchesAnyPosition(guessInts, c) ==
    Cardinality({i \in 1..Len(guessInts) :
                    \E j \in 1..Len(c) : guessInts[i] = c[j]})

\* sum(1 for (x, y) in zip(guessInts, code) if x == y)
Matches(guessInts, c) ==
    Cardinality({i \in 1..Min(Len(guessInts), Len(c)) : guessInts[i] = c[i]})

\* variant: the guess is counted before its length is checked
CheckGuessCountsInvalid(g) ==
    LET guessInts == SplitGuess(g, selfMaxDigit)
    IN  IF Len(guessInts) # selfCount
        THEN [ret |-> -1, numGuesses |-> numGuesses + 1]
        ELSE [ret |-> Matches(guessInts, code), numGuesses |-> numGuesses + 1]

\* checkGuess: the value returned and the __numGuesses it leaves
CheckGuess(g) ==
    LET guessInts == SplitGuess(g, selfMaxDigit)
    IN  IF Len(guessInts) # selfCount
        THEN [ret |-> -1, numGuesses |-> numGuesses]
        ELSE [ret |-> Matches(guessInts, code), numGuesses |-> numGuesses + 1]

\* variant: the guess counter survives the reset
ResetKeepsGuesses(cnt, md) ==
    /\ selfCount' = cnt
    /\ selfMaxDigit' = md
    /\ numGuesses' = numGuesses
    /\ code' \in GenerateNewCode(cnt, md)

\* reset(count, maxDigit)
Reset(cnt, md) ==
    /\ selfCount' = cnt
    /\ selfMaxDigit' = md
    /\ numGuesses' = 0
    /\ code' \in GenerateNewCode(cnt, md)

(***************************************************************************)
(* Inputs: the argument lists the process can be started with and the      *)
(* lines the player can type.                                              *)
(***************************************************************************)
ArgLists ==
    { <<>>,
      << <<"0">> >>,
      << <<"1">> >>,
      << <<"2">> >>,
      << <<"3">>, <<"2">> >>,
      << <<"1">>, <<"9">> >>,
      << <<"3">>, <<"4">> >>,
      << <<"0", "2">>, <<"0", "3">> >>,
      << <<"a", "b", "c">> >>,
      << <<"3">>, <<"1", "0">> >>,
      << <<"1">>, <<"1">> >>,
      << <<"2">>, <<"0">> >>,
      << <<"1">>, <<"2">>, <<"3">> >>,
      << <<>> >>,
      << <<"2">>, <<"x">> >>,
      << <<"-", "1">> >>,
      << <<"a">>, <<"1">>, <<"2">> >> }

LineChars == {"0", "1", "2", " ", "\t"}

RECURSIVE SeqsUpTo(_, _)
SeqsUpTo(S, n) ==
    IF n = 0 THEN {<<>>}
    ELSE LET shorter == SeqsUpTo(S, n - 1)
         IN  shorter \cup {Append(s, c) : s \in shorter, c \in S}

ShortLines == SeqsUpTo(LineChars, MaxLineLen)

LongLines ==
    { <<"1", "2", "3", "4">>,
      <<"4", "3", "2", "1">>,
      <<"1", "2", "4", "3">>,
      <<"1", " ", "2", " ", "3", " ", "4">>,
      <<"1", " ", "2", " ", "9", " ", "4">>,
      <<"0", "1", " ", "2", " ", "3", " ", "4">>,
      <<"1", "a", " ", "2", " ", "3", " ", "4">>,
      <<"1", " ", "2", "\t", "3", " ", "4">>,
      <<"1", "\t", "2", "\t", "3", "\t", "4">>,
      <<"1", "2", "\t", "3">>,
      <<"1", "2", " ", "3">>,
      <<"1", " ", "2", " ", "3">>,
      <<"1", "2", "3">>,
      <<"3", "2", "1">>,
      <<"0", "1", " ", "2">>,
      <<"1", "a", " ", "2">>,
      <<"2", " ", "1">>,
      <<"1", "2", "3", "4", " ">>,
      <<" ", "1", "2", "3", "4">>,
      <<"\t", "1", "2">>,
      <<"a", "b", "c">>,
      <<"q", "u", "i", "t">>,
      <<"Q", "U", "I", "T">>,
      <<"Q", "u", "i", "t">>,
      <<"e", "x", "i", "t">>,
      <<"E", "X", "I", "T">>,
      <<"e", "x", "i", "t", " ", "n", "o", "w">>,
      <<"Q", "u", "i", "t", "t", "i", "n", "g">>,
      <<"i", " ", "q", "u", "i", "t">>,
      <<" ", " ", "q", "u", "i", "t">>,
      <<"q", "u", "i", "t", "1", "2", "3", "4">>,
      <<"q", "u", "i", "t", "1", "2">>,
      <<" ", "q", "u", "i", "t", " ", "1", " ", "2", " ", "3", " ", "4">>,
      <<"\t", "e", "x", "i", "t">>,
      <<" ", "e", "x", "i", "t", " ", "1", " ", "2">>,
      <<" ", "1", " ", "2", " ", "3", " ", "4", "\t">>,
      <<"\t", "2", " ", "1", " ">> }

Lines == ShortLines \cup LongLines

(***************************************************************************)
(* Console output.  Every message is written with print(), to standard     *)
(* output; a message carries its numbers and, for the feedback line, the   *)
(* text of the marker block.                                               *)
(***************************************************************************)
Msg(kind, msg, a, b, text) ==
    [stream |-> "stdout", kind |-> kind, msg |-> msg, a |-> a, b |-> b,
     text |-> text]

\* "%s\nUsage : %s [numberOfDigits [maximumDigitSize (2-9)]]"
UsageText(msg, n) == Msg("usage", msg, n, 0, <<>>)

\* welcomeText
WelcomeText == Msg("welcome", "", count, maxDigit, <<>>)

\* " %d > " % (game.getNumGuesses() + 1)
PromptText(n) == <<" ">> \o FormatInt(n + 1) \o <<" ", ">", " ">>

\* variant: the incorrect-position markers are not reduced by the score
FeedbackTextFullDashes(n) ==
    Msg("feedback", "", Len(prompt) - 1, 0,
        <<"[">> \o Repeat("*", n) \o Repeat("-", count) \o <<"]">>)

\* "%s[%s%s]": the indent is the number of leading spaces
FeedbackText(n) ==
    Msg("feedback", "", Len(prompt) - 1, 0,
        <<"[">> \o Repeat("*", n) \o Repeat("-", count - n) \o <<"]">>)

(***************************************************************************)
(* _isQuit                                                                 *)
(***************************************************************************)
IsQuit(g) ==
    LET lowerCaseGuess == Lower(g)
    IN  \/ StartsWith(lowerCaseGuess, <<"q", "u", "i", "t">>)
        \/ StartsWith(lowerCaseGuess, <<"e", "x", "i", "t">>)

(***************************************************************************)
(* The process starts with its arguments and no game.                      *)
(***************************************************************************)
Init ==
    /\ pc = "main"
    /\ args \in ArgLists
    /\ count = DefaultCount
    /\ maxDigit = DefaultMaxDigit
    /\ numCombinations = 0
    /\ created = FALSE
    /\ selfCount = 0
    /\ selfMaxDigit = 0
    /\ numGuesses = 0
    /\ code = <<>>
    /\ prompt = <<>>
    /\ guess = <<>>
    /\ numCorrect = Unbound
    /\ out = <<>>
    /\ exitCode = Running

\* variant: exit(2) without printing the usage
ExitWithoutUsage(msg, n) ==
    /\ out' = out
    /\ exitCode' = 2
    /\ pc' = "exit2"

\* _printUsageAndExit(message): print the usage and exit(2)
PrintUsageAndExit(msg, n) ==
    /\ out' = Append(out, UsageText(msg, n))
    /\ exitCode' = 2
    /\ pc' = "exit2"

\* variant: the range check of the second argument admits 1
MainAcceptsOne ==
    /\ pc = "main"
    /\ IF Len(args) > 2
       THEN /\ PrintUsageAndExit("Wrong number of arguments.", 0)
            /\ UNCHANGED <<count, maxDigit>>
       ELSE IF \E i \in 1..Len(args) : ~IsDigit(args[i])
       THEN /\ PrintUsageAndExit("Arguments must be digits.", 0)
            /\ UNCHANGED <<count, maxDigit>>
       ELSE /\ count' = IF Len(args) > 0 THEN IntOf(args[1]) ELSE count
            /\ maxDigit' = IF Len(args) > 1 THEN IntOf(args[2]) ELSE maxDigit
            /\ IF Len(args) > 1 /\ ~(1 <= maxDigit' /\ maxDigit' <= 9)
               THEN PrintUsageAndExit("Maximum digit argument out of range.",
                                      maxDigit')
               ELSE pc' = "play" /\ out' = out /\ exitCode' = exitCode
    /\ UNCHANGED <<args, numCombinations, created, selfCount, selfMaxDigit,
                   numGuesses, code, prompt, guess, numCorrect>>

\* the command-line block: validate the arguments, then call play()
Main ==
    /\ pc = "main"
    /\ IF Len(args) > 2
       THEN /\ PrintUsageAndExit("Wrong number of arguments.", 0)
            /\ UNCHANGED <<count, maxDigit>>
       ELSE IF \E i \in 1..Len(args) : ~IsDigit(args[i])
       THEN /\ PrintUsageAndExit("Arguments must be digits.", 0)
            /\ UNCHANGED <<count, maxDigit>>
       ELSE /\ count' = IF Len(args) > 0 THEN IntOf(args[1]) ELSE count
            /\ maxDigit' = IF Len(args) > 1 THEN IntOf(args[2]) ELSE maxDigit
            /\ IF Len(args) > 1 /\ ~(1 < maxDigit' /\ maxDigit' <= 9)
               THEN PrintUsageAndExit("Maximum digit argument out of range.",
                                      maxDigit')
               ELSE pc' = "play" /\ out' = out /\ exitCode' = exitCode
    /\ UNCHANGED <<args, numCombinations, created, selfCount, selfMaxDigit,
                   numGuesses, code, prompt, guess, numCorrect>>

\* play(), up to the loop: the combinations, the game object, the welcome
PlayStart ==
    /\ pc = "play"
    /\ numCombinations' = Pow(maxDigit, count)
    /\ created' = TRUE
    /\ Reset(count, maxDigit)
    /\ out' = Append(out, WelcomeText)
    /\ pc' = "loop"
    /\ UNCHANGED <<args, exitCode, count,
                   maxDigit, prompt, guess, numCorrect>>

\* the top of the loop: compute the prompt and show it, waiting for a line
Prompt ==
    /\ pc = "loop"
    /\ prompt' = PromptText(numGuesses)
    /\ out' = Append(out, Msg("prompt", "", numGuesses + 1, 0, prompt'))
    /\ guess' = <<>>
    /\ numCorrect' = Unbound
    /\ pc' = "AwaitingGuess"
    /\ UNCHANGED <<args, exitCode, count,
                   maxDigit, numCombinations, created, selfCount,
                   selfMaxDigit, numGuesses, code>>

\* raw_input returns the line the player typed
GetInput ==
    /\ pc = "AwaitingGuess"
    /\ numGuesses < MaxGuesses
    /\ \E line \in Lines : guess' = line
    /\ out' = <<>>
    /\ pc' = "handle"
    /\ UNCHANGED <<args, exitCode, count,
                   maxDigit, numCombinations, created, selfCount,
                   selfMaxDigit, numGuesses, code, prompt, numCorrect>>

\* variant: no break after the farewell, the loop goes on
HandleQuitContinues ==
    /\ pc = "handle"
    /\ IsQuit(guess)
    /\ out' = Append(out, Msg("thanks", "", 0, 0, <<>>))
    /\ pc' = "loop"
    /\ UNCHANGED <<args, exitCode, count, maxDigit, numCombinations, created,
                   selfCount, selfMaxDigit, numGuesses, code, prompt, guess,
                   numCorrect>>

\* the line asks to quit: break, play() returns and the script ends
HandleQuit ==
    /\ pc = "handle"
    /\ IsQuit(guess)
    /\ out' = Append(out, Msg("thanks", "", 0, 0, <<>>))
    /\ exitCode' = 0
    /\ pc' = "Quitting"
    /\ UNCHANGED <<args, count,
                   maxDigit, numCombinations, created, selfCount,
                   selfMaxDigit, numGuesses, code, prompt, guess, numCorrect>>

\* variant: a blank line is passed to checkGuess like any other
HandleBlankChecked ==
    /\ pc = "handle"
    /\ ~IsQuit(guess)
    /\ Len(Strip(guess)) = 0
    /\ LET r == CheckGuess(guess)
       IN  /\ numCorrect' = r.ret
           /\ numGuesses' = r.numGuesses
    /\ out' = Append(out, Msg("hint", "", count, maxDigit, <<>>))
    /\ pc' = "loop"
    /\ UNCHANGED <<args, exitCode, count,
                   maxDigit, numCombinations, created, selfCount,
                   selfMaxDigit, code, prompt, guess>>

\* the line is blank: try again
HandleBlank ==
    /\ pc = "handle"
    /\ ~IsQuit(guess)
    /\ Len(Strip(guess)) = 0
    /\ pc' = "loop"
    /\ UNCHANGED <<args, exitCode, count,
                   maxDigit, numCombinations, created, selfCount,
                   selfMaxDigit, numGuesses, code, prompt, guess, numCorrect,
                   out>>

\* variant: no continue after the hint, so the feedback line follows it
HandleInvalidNoContinue ==
    /\ pc = "handle"
    /\ ~IsQuit(guess)
    /\ Len(Strip(guess)) # 0
    /\ LET r == CheckGuess(guess)
       IN  /\ r.ret < 0
           /\ numCorrect' = r.ret
           /\ numGuesses' = r.numGuesses
           /\ out' = out \o <<Msg("hint", "", count, maxDigit, <<>>),
                              FeedbackText(r.ret)>>
    /\ pc' = "loop"
    /\ UNCHANGED <<args, exitCode, count,
                   maxDigit, numCombinations, created, selfCount,
                   selfMaxDigit, code, prompt, guess>>

\* the line is a guess checkGuess finds invalid
HandleInvalid ==
    /\ pc = "handle"
    /\ ~IsQuit(guess)
    /\ Len(Strip(guess)) # 0
    /\ LET r == CheckGuess(guess)
       IN  /\ r.ret < 0
           /\ numCorrect' = r.ret
           /\ numGuesses' = r.numGuesses
    /\ out' = Append(out, Msg("hint", "", count, maxDigit, <<>>))
    /\ pc' = "loop"
    /\ UNCHANGED <<args, exitCode, count,
                   maxDigit, numCombinations, created, selfCount,
                   selfMaxDigit, code, prompt, guess>>

\* variant: scoring a guess replaces the code
HandleScoredNewCode ==
    /\ pc = "handle"
    /\ ~IsQuit(guess)
    /\ Len(Strip(guess)) # 0
    /\ LET r == CheckGuess(guess)
       IN  /\ r.ret >= 0
           /\ r.ret # count
           /\ numCorrect' = r.ret
           /\ numGuesses' = r.numGuesses
           /\ out' = Append(out, FeedbackText(r.ret))
    /\ code' \in GenerateNewCode(selfCount, selfMaxDigit)
    /\ pc' = "loop"
    /\ UNCHANGED <<args, exitCode, count, maxDigit, numCombinations, created,
                   selfCount, selfMaxDigit, prompt, guess>>

\* variant: the reset is outside the test for a win
HandleScoredResets ==
    /\ pc = "handle"
    /\ ~IsQuit(guess)
    /\ Len(Strip(guess)) # 0
    /\ LET r == CheckGuess(guess)
       IN  /\ r.ret >= 0
           /\ r.ret # count
           /\ numCorrect' = r.ret
           /\ out' = Append(out, FeedbackText(r.ret))
    /\ Reset(count, maxDigit)
    /\ pc' = "loop"
    /\ UNCHANGED <<args, exitCode, count, maxDigit, numCombinations, created,
                   prompt, guess>>

\* the line is a valid guess that does not match the whole code
HandleScored ==
    /\ pc = "handle"
    /\ ~IsQuit(guess)
    /\ Len(Strip(guess)) # 0
    /\ LET r == CheckGuess(guess)
       IN  /\ r.ret >= 0
           /\ r.ret # count
           /\ numCorrect' = r.ret
           /\ numGuesses' = r.numGuesses
           /\ out' = Append(out, FeedbackText(r.ret))
    /\ pc' = "loop"
    /\ UNCHANGED <<args, exitCode, count,
                   maxDigit, numCombinations, created, selfCount,
                   selfMaxDigit, code, prompt, guess>>

\* variant: the game is reset before the congratulation is printed
HandleWonResetFirst ==
    /\ pc = "handle"
    /\ ~IsQuit(guess)
    /\ Len(Strip(guess)) # 0
    /\ LET r == CheckGuess(guess)
       IN  /\ r.ret >= 0
           /\ r.ret = count
           /\ numCorrect' = r.ret
           /\ out' = out \o <<FeedbackText(r.ret),
                              Msg("congrats", "", 0, numCombinations, <<>>),
                              WelcomeText>>
    /\ Reset(count, maxDigit)
    /\ pc' = "loop"
    /\ UNCHANGED <<args, exitCode, count, maxDigit, numCombinations, created,
                   prompt, guess>>

\* the line is a guess that matches the whole code: congratulate and reset
HandleWon ==
    /\ pc = "handle"
    /\ ~IsQuit(guess)
    /\ Len(Strip(guess)) # 0
    /\ LET r == CheckGuess(guess)
       IN  /\ r.ret >= 0
           /\ r.ret = count
           /\ numCorrect' = r.ret
           /\ out' = out \o <<FeedbackText(r.ret),
                              Msg("congrats", "", r.numGuesses,
                                  numCombinations, <<>>),
                              WelcomeText>>
    /\ Reset(count, maxDigit)
    /\ pc' = "loop"
    /\ UNCHANGED <<args, exitCode, count,
                   maxDigit, numCombinations, created, prompt,
                   guess>>

Next ==
    \/ Main
    \/ PlayStart
    \/ Prompt
    \/ GetInput
    \/ HandleQuit
    \/ HandleBlank
    \/ HandleInvalid
    \/ HandleScored
    \/ HandleWon

Spec == Init /\ [][Next]_vars

TypeOK ==
    /\ pc \in {"main", "play", "loop", "AwaitingGuess", "handle", "Quitting",
               "exit2"}
    /\ numGuesses \in 0..MaxGuesses
    /\ created \in BOOLEAN

(***************************************************************************)
(* Properties.                                                             *)
(***************************************************************************)
\* the line in guess has been handled and checkGuess was called on it
Checked == pc = "loop" /\ numCorrect # Unbound

\* the line in guess is about to be handled and will reach checkGuess
ReachesCheckGuess == pc = "handle" /\ ~IsQuit(guess) /\ Len(Strip(guess)) # 0

\* the digits a well-formed code of cnt digits up to md can hold
WellFormedCode(c, cnt, md) ==
    Len(c) = cnt /\ \A i \in 1..Len(c) : c[i] \in 1..md

\* the message of the given kind printed in the current iteration, if any
Printed(kind) == {i \in 1..Len(out) : out[i].kind = kind}

\* C1: guessCount counts the structurally valid guesses since the last
\* reset: a checkGuess call whose parsed guess has exactly digitCount
\* in-range digits adds exactly one to it (the congratulation of a winning
\* guess reports the sum before the reset clears it), and a call that
\* returns -1 leaves it unchanged.
C1_GuessCountCountsValidGuesses ==
    [][ReachesCheckGuess =>
          LET valid == Len(SplitGuess(guess, selfMaxDigit)) = selfCount
          IN  /\ valid <=> numCorrect' >= 0
              /\ ~valid => numCorrect' = -1 /\ numGuesses' = numGuesses
              /\ (valid /\ numCorrect' # count) =>
                     numGuesses' = numGuesses + 1
              /\ (valid /\ numCorrect' = count) =>
                     /\ \A i \in Printed("congrats")' :
                            out'[i].a = numGuesses + 1
                     /\ Printed("congrats")' # {}
                     /\ numGuesses' = 0]_vars

\* C1 witness: an invalid guess after one counted guess left the count at 1
C1_Witness == Checked /\ numCorrect = -1 /\ numGuesses = 1

\* C2: for every code and every structurally valid guess, checkGuess
\* returns the number of positions i at which the parsed guess and the
\* code hold the same digit, with no credit for a digit of the code in
\* another position, and that number is between 0 and digitCount.
C2_ScoreIsPositionalMatches ==
    [][(ReachesCheckGuess
          /\ Len(SplitGuess(guess, selfMaxDigit)) = selfCount) =>
          LET parsed == SplitGuess(guess, selfMaxDigit)
          IN  /\ numCorrect' =
                    Cardinality({i \in 1..selfCount : parsed[i] = code[i]})
              /\ 0 <= numCorrect'
              /\ numCorrect' <= selfCount]_vars

\* C2 witness: both digits of the code guessed in the wrong positions
\* score 0
C2_Witness ==
    /\ Checked
    /\ guess = <<"2", "1">>
    /\ code = <<1, 2>>
    /\ numCorrect = 0

\* C3: when a guess scores digitCount the engine is reset before the next
\* prompt: guessCount is 0, the code is a newly generated code for the
\* same digitCount and maxDigit, and the next step shows prompt 1 and
\* waits for a guess.
C3_WinResetsBeforeNextPrompt ==
    [][/\ (ReachesCheckGuess /\ numCorrect' = count) =>
              /\ pc' = "loop"
              /\ numGuesses' = 0
              /\ selfCount' = selfCount /\ selfMaxDigit' = selfMaxDigit
              /\ count' = count /\ maxDigit' = maxDigit
              /\ WellFormedCode(code', selfCount, selfMaxDigit)
       /\ (Checked /\ numCorrect = count) =>
              /\ numGuesses = 0
              /\ pc' = "AwaitingGuess"
              /\ prompt' = <<" ", "1", " ", ">", " ">>
              /\ UNCHANGED <<numGuesses, code, selfCount, selfMaxDigit>>]_vars

\* C3 witness: the game was won on the second guess, the counter is back
\* at 0 and the winning guess no longer matches the new code
C3_Witness ==
    /\ Checked
    /\ numCorrect = count
    /\ guess = <<"1", "2", "3", "4">>
    /\ \E i \in Printed("congrats") : out[i].a = 2
    /\ numGuesses = 0
    /\ code = <<4, 3, 2, 1>>

\* the trimmed text of the line holds a whitespace character
HasInteriorWhitespace(g) ==
    \E i \in 1..Len(Strip(g)) : Strip(g)[i] \in Whitespace

\* the trimmed text of the line holds a space character
HasInteriorSpace(g) == \E i \in 1..Len(Strip(g)) : Strip(g)[i] = " "

\* the value of a string of decimal digits, by place value
PlaceValue(t) ==
    LET RECURSIVE Sum(_)
        Sum(k) == IF k = 0 THEN 0
                  ELSE DigitVal(t[k]) * Pow(10, Len(t) - k) + Sum(k - 1)
    IN  Sum(Len(t))

AllDigits(t) == Len(t) > 0 /\ \A i \in 1..Len(t) : IsDigitChar(t[i])

\* the values of the tokens that are all digits with a value in 1..md
ValuesInRange(toks, md) ==
    LET kept == SelectSeq(toks, LAMBDA t : AllDigits(t)
                                        /\ PlaceValue(t) \in 1..md)
    IN  [i \in 1..Len(kept) |-> PlaceValue(kept[i])]

\* as ValuesInRange, a token with a leading zero not being taken either
ValuesInRangeNoLeadingZero(toks, md) ==
    LET kept == SelectSeq(toks, LAMBDA t : AllDigits(t) /\ t[1] # "0"
                                        /\ PlaceValue(t) \in 1..md)
    IN  [i \in 1..Len(kept) |-> PlaceValue(kept[i])]

\* C4 as stated: a guess whose trimmed text holds any whitespace character
\* is split on runs of whitespace, so its parsed digits and its validity
\* are those of its whitespace-separated tokens.
C4_SplitOnAnyWhitespace ==
    (Checked /\ HasInteriorWhitespace(guess)) =>
        LET parsed == ValuesInRange(Split(Strip(guess)), selfMaxDigit)
        IN  /\ SplitGuess(guess, selfMaxDigit) = parsed
            /\ numCorrect >= 0 <=> Len(parsed) = selfCount

\* C4 amended: a guess whose trimmed text holds a space character is
\* split on runs of whitespace (tabs included); a guess whose trimmed
\* text holds no space is read character by character even when it holds
\* tabs, so that a "12" between tabs is read as the digits 1 and 2.
C4_SplitOnSpaceOnly ==
    Checked =>
        LET parsed == IF HasInteriorSpace(guess)
                      THEN ValuesInRange(Split(Strip(guess)), selfMaxDigit)
                      ELSE ValuesInRange(List(guess), selfMaxDigit)
        IN  /\ SplitGuess(guess, selfMaxDigit) = parsed
            /\ numCorrect >= 0 <=> Len(parsed) = selfCount

\* C4 witness: "12<tab>3" was accepted as the three digits 1, 2, 3
C4_Witness ==
    /\ Checked
    /\ guess = <<"1", "2", "\t", "3">>
    /\ selfCount = 3
    /\ numCorrect >= 0

\* C5 as stated: in whitespace-separated mode a token with a leading zero
\* or with a non-digit character contributes no digit, so "01 2 3 4" is
\* invalid for digitCount = 4.
C5_LeadingZeroRejected ==
    (Checked /\ HasInteriorSpace(guess)) =>
        LET parsed ==
                ValuesInRangeNoLeadingZero(Split(Strip(guess)), selfMaxDigit)
        IN  /\ SplitGuess(guess, selfMaxDigit) = parsed
            /\ numCorrect >= 0 <=> Len(parsed) = selfCount
            /\ (guess = <<"0", "1", " ", "2", " ", "3", " ", "4">>
                    /\ selfCount = 4) => numCorrect = -1

\* C5 amended: in whitespace-separated mode a token with a non-digit
\* character contributes no digit, and a token of digits with leading
\* zeros is read by its value and kept when that value is in 1..maxDigit,
\* so "01 2 3 4" is the valid guess 1 2 3 4 for digitCount = 4, maxDigit
\* >= 4, and "1a 2 3 4" is invalid.
C5_LeadingZeroReadByValue ==
    (Checked /\ HasInteriorSpace(guess)) =>
        LET toks == Split(Strip(guess))
            parsed == ValuesInRange(toks, selfMaxDigit)
        IN  /\ SplitGuess(guess, selfMaxDigit) = parsed
            /\ numCorrect >= 0 <=> Len(parsed) = selfCount
            /\ (guess = <<"0", "1", " ", "2", " ", "3", " ", "4">>
                    /\ selfCount = 4 /\ selfMaxDigit >= 4) =>
                   /\ parsed = <<1, 2, 3, 4>>
                   /\ numCorrect >= 0
            /\ (guess = <<"1", "a", " ", "2", " ", "3", " ", "4">>
                    /\ selfCount = 4) => numCorrect = -1

\* C5 witness: "01 2 3 4" was scored as a valid guess of four digits
C5_Witness ==
    /\ Checked
    /\ guess = <<"0", "1", " ", "2", " ", "3", " ", "4">>
    /\ selfCount = 4
    /\ numCorrect >= 0

\* the trimmed, lower-cased line starts with "quit" or "exit"
TrimmedStartsWithKeyword(g) ==
    \/ StartsWith(Lower(Strip(g)), <<"q", "u", "i", "t">>)
    \/ StartsWith(Lower(Strip(g)), <<"e", "x", "i", "t">>)

\* C6: a handled line moved the loop to Quitting exactly when its trimmed,
\* lower-cased text starts with "quit" or "exit", and a quitting line was
\* not passed to checkGuess.
C6_QuitOnTrimmedLine ==
    (pc \in {"loop", "Quitting"} /\ created /\ prompt # <<>>) =>
        /\ pc = "Quitting" <=> TrimmedStartsWithKeyword(guess)
        /\ pc = "Quitting" => numCorrect = Unbound

\* C7: every configuration the startup passes to play() has digitCount >= 1
\* and maxDigit in 2..9.
C7_ConfigInvariant ==
    pc \in {"play", "loop", "AwaitingGuess", "handle", "Quitting"} =>
        /\ count >= 1
        /\ 2 <= maxDigit
        /\ maxDigit <= 9

\* C8: a non-blank, non-quit line that scores Invalid prints the format
\* hint and nothing else, goes back to the top of the loop with
\* guessCount, the code and the configuration unchanged, and the next
\* prompt is the one shown before.
C8_InvalidGuessIsFree ==
    [][/\ (ReachesCheckGuess
             /\ Len(SplitGuess(guess, selfMaxDigit)) # selfCount) =>
              /\ out' = <<Msg("hint", "", count, maxDigit, <<>>)>>
              /\ pc' = "loop"
              /\ numCorrect' = -1
              /\ UNCHANGED <<numGuesses, code, selfCount, selfMaxDigit,
                             count, maxDigit, prompt>>
       /\ (Checked /\ numCorrect = -1) =>
              /\ pc' = "AwaitingGuess"
              /\ prompt' = prompt
              /\ UNCHANGED <<numGuesses, code, selfCount, selfMaxDigit,
                             count, maxDigit>>]_vars

\* C8 witness: "1 2 9 4" was answered with the hint alone
C8_Witness ==
    /\ Checked
    /\ numCorrect = -1
    /\ guess = <<"1", " ", "2", " ", "9", " ", "4">>
    /\ Len(out) = 1
    /\ out[1].kind = "hint"

\* C9: an empty or all-whitespace line changes nothing: nothing is
\* printed, checkGuess is not called, guessCount, the code and the
\* configuration are unchanged and the same prompt is shown again.
C9_BlankLineChangesNothing ==
    [][/\ (pc = "handle" /\ Len(Strip(guess)) = 0) =>
              /\ out' = <<>>
              /\ pc' = "loop"
              /\ numCorrect' = Unbound
              /\ UNCHANGED <<numGuesses, code, selfCount, selfMaxDigit,
                             count, maxDigit, numCombinations, prompt>>
       /\ (pc = "loop" /\ prompt # <<>> /\ Len(Strip(guess)) = 0) =>
              /\ pc' = "AwaitingGuess"
              /\ prompt' = prompt
              /\ UNCHANGED <<numGuesses, code, selfCount, selfMaxDigit,
                             count, maxDigit, numCombinations>>]_vars

\* C9 witness: a line of a space and a tab was skipped after one counted
\* guess
C9_Witness ==
    /\ pc = "loop"
    /\ guess = <<" ", "\t">>
    /\ out = <<>>
    /\ numCorrect = Unbound
    /\ numGuesses = 1

\* C10: in a session with digitCount >= 1 and maxDigit in 2..9 the code
\* has exactly digitCount digits, each in 1..maxDigit, after construction
\* and after every reset.
C10_CodeWellFormed ==
    (created /\ selfCount >= 1 /\ 2 <= selfMaxDigit /\ selfMaxDigit <= 9) =>
        /\ Len(code) = selfCount
        /\ \A i \in 1..Len(code) : 1 <= code[i] /\ code[i] <= selfMaxDigit

\* C10 witness: after a win with maxDigit 9 the new code is the top digit
C10_Witness ==
    /\ Checked
    /\ numCorrect = count
    /\ selfCount = 1
    /\ selfMaxDigit = 9
    /\ code = <<9>>

\* the argument list is one the usage rules reject
UsageError(a) ==
    \/ Len(a) > 2
    \/ \E i \in 1..Len(a) : ~AllDigits(a[i])
    \/ Len(a) = 2 /\ AllDigits(a[2]) /\ PlaceValue(a[2]) \notin 2..9

\* C11: every usage error (more than two arguments, an argument that is
\* not all decimal digits, a second argument outside 2..9) ends the
\* process with exit code 2 before play() is entered and before a
\* Mastermind exists, no other argument list does, and ["3", "4"] is
\* accepted with digitCount 3 and maxDigit 4.
C11_UsageErrorExitsBeforeGame ==
    pc # "main" =>
        /\ UsageError(args) <=> pc = "exit2"
        /\ pc = "exit2" <=> exitCode = 2
        /\ pc = "exit2" =>
              /\ ~created
              /\ code = <<>>
              /\ numCombinations = 0
              /\ prompt = <<>>
        /\ args = << <<"3">>, <<"4">> >> => count = 3 /\ maxDigit = 4

\* C11 witness: ["3", "10"] ended with exit code 2 and no game
C11_Witness ==
    /\ pc = "exit2"
    /\ args = << <<"3">>, <<"1", "0">> >>
    /\ exitCode = 2
    /\ ~created

\* the token is a number outside 1..md
OutOfRange(t, md) == AllDigits(t) /\ PlaceValue(t) \notin 1..md

\* s without the elements at the positions in drop, order kept
RECURSIVE Without(_, _)
Without(s, drop) ==
    IF Len(s) = 0 THEN <<>>
    ELSE Without(SubSeq(s, 1, Len(s) - 1), drop)
         \o (IF Len(s) \in drop THEN <<>> ELSE <<s[Len(s)]>>)

\* C12: a token whose value is 0 or greater than maxDigit is dropped,
\* neither clamped nor replaced, and the digits in range keep their order:
\* the parsed guess is what the tokens parse to once the out-of-range
\* tokens are taken out, so digitCount tokens with one out of range give
\* fewer than digitCount digits and score Invalid ("1 2 9 4" for
\* digitCount = 4, maxDigit = 4).
C12_OutOfRangeTokenDropped ==
    Checked =>
        LET toks == Tokens(guess)
            bad == {i \in 1..Len(toks) : OutOfRange(toks[i], selfMaxDigit)}
            parsed == SplitGuess(guess, selfMaxDigit)
        IN  /\ parsed = ValuesInRange(Without(toks, bad), selfMaxDigit)
            /\ Len(parsed) <= Len(toks) - Cardinality(bad)
            /\ \A i \in 1..Len(parsed) : parsed[i] \in 1..selfMaxDigit
            /\ (Len(toks) = selfCount /\ bad # {}) =>
                   Len(parsed) < selfCount /\ numCorrect = -1
            /\ (guess = <<"1", " ", "2", " ", "9", " ", "4">>
                    /\ selfMaxDigit = 4) => parsed = <<1, 2, 4>>

\* C12 witness: "1 2 9 4" lost its 9 and was scored Invalid
C12_Witness ==
    /\ Checked
    /\ guess = <<"1", " ", "2", " ", "9", " ", "4">>
    /\ selfCount = 4
    /\ selfMaxDigit = 4
    /\ SplitGuess(guess, selfMaxDigit) = <<1, 2, 4>>
    /\ numCorrect = -1

\* the text is a run of digit characters
DigitRun(g) == Len(g) > 0 /\ \A i \in 1..Len(g) : IsDigitChar(g[i])

\* the text is single digits separated by single spaces
SpacedDigits(g) ==
    /\ Len(g) % 2 = 1
    /\ \A i \in 1..Len(g) :
           IF i % 2 = 1 THEN IsDigitChar(g[i]) ELSE g[i] = " "

\* d1d2...dk as d1 d2 ... dk
Spaced(g) == [i \in 1..(2 * Len(g) - 1) |->
                 IF i % 2 = 1 THEN g[(i + 1) \div 2] ELSE " "]

\* d1 d2 ... dk as d1d2...dk
Joined(g) == [i \in 1..((Len(g) + 1) \div 2) |-> g[2 * i - 1]]

\* C13: for single digits d1..dk the text "d1d2...dk" and the text
\* "d1 d2 ... dk" parse to the same digits, so the result checkGuess gives
\* for the one is the result it would give for the other against the
\* same code.
C13_ConcatenatedEqualsSpaced ==
    [][(ReachesCheckGuess /\ (DigitRun(guess) \/ SpacedDigits(guess))) =>
          LET other == IF DigitRun(guess) THEN Spaced(guess)
                       ELSE Joined(guess)
          IN  /\ SplitGuess(guess, selfMaxDigit)
                    = SplitGuess(other, selfMaxDigit)
              /\ numCorrect' = CheckGuess(other).ret]_vars

\* C13 witness: "1 2 3 4" scored 2, as "1234" does against that code
C13_Witness ==
    /\ Checked
    /\ guess = <<"1", " ", "2", " ", "3", " ", "4">>
    /\ numCorrect = 2
    /\ CheckGuess(<<"1", "2", "3", "4">>).ret = 2

\* what a call of checkGuess returns for the line g in an engine holding
\* the code c of cnt digits up to md
ResultFor(g, c, cnt, md) ==
    LET parsed == SplitGuess(g, md)
    IN  IF Len(parsed) # cnt THEN -1
        ELSE Cardinality({i \in 1..cnt : parsed[i] = c[i]})

\* C14: checkGuess does not change the code, digitCount or maxDigit, only
\* guessCount, so that a second call with the same line, made after a
\* call that did not win, returns the same result.
C14_CheckGuessKeepsCode ==
    [][(ReachesCheckGuess /\ numCorrect' # count) =>
          /\ UNCHANGED <<code, selfCount, selfMaxDigit, count, maxDigit>>
          /\ guess' = guess
          /\ numCorrect' = ResultFor(guess, code, selfCount, selfMaxDigit)
          /\ numCorrect' = ResultFor(guess', code', selfCount', selfMaxDigit')
          /\ numGuesses' \in {numGuesses, numGuesses + 1}]_vars

\* C14 witness: the second counted guess of a game, whose score a further
\* call would repeat
C14_Witness ==
    /\ Checked
    /\ numGuesses = 2
    /\ numCorrect = 1
    /\ guess = <<"1", "2", "3", "4">>
    /\ CheckGuess(guess).ret = 1

\* the positions of the character c in the text t
Positions(t, c) == {i \in 1..Len(t) : t[i] = c}

\* C15: for every valid guess scoring n, the winning one included, the
\* feedback line holds exactly n "*" followed by exactly digitCount - n
\* "-", digitCount markers in all, and nothing else between its brackets.
C15_FeedbackMarkers ==
    (Checked /\ numCorrect >= 0) =>
        /\ Printed("feedback") = {1}
        /\ LET t == out[1].text
               stars == Positions(t, "*")
               dashes == Positions(t, "-")
           IN  /\ Cardinality(stars) = numCorrect
               /\ Cardinality(dashes) = count - numCorrect
               /\ Cardinality(stars \cup dashes) = count
               /\ \A i \in stars : \A j \in dashes : i < j
               /\ Len(t) = count + 2
               /\ t[1] = "[" /\ t[Len(t)] = "]"

\* C15 witness: a guess with one digit of four right is answered [*---]
C15_Witness ==
    /\ Checked
    /\ numCorrect = 1
    /\ count = 4
    /\ out[1].text = <<"[", "*", "-", "-", "-", "]">>

\* C16: on a win the loop prints the full-correct feedback, then the
\* congratulation, then resets, then prints the welcome banner; the
\* congratulation reports the guessCount of the game just won, the
\* winning guess included, so at least 1, and the number of codes of
\* digitCount digits up to maxDigit.
C16_WinOrder ==
    [][(ReachesCheckGuess /\ numCorrect' = count) =>
          /\ Len(out') = 3
          /\ out'[1].kind = "feedback"
          /\ out'[1].text = <<"[">> \o [i \in 1..count |-> "*"] \o <<"]">>
          /\ out'[2].kind = "congrats"
          /\ out'[2].a = numGuesses + 1
          /\ out'[2].a >= 1
          /\ out'[2].b = Cardinality([1..count -> 1..maxDigit])
          /\ out'[3].kind = "welcome"
          /\ out'[3].a = count /\ out'[3].b = maxDigit
          /\ numGuesses' = 0]_vars

\* C16 witness: the default game won at the second guess reports 2
\* attempts out of 256 combinations
C16_Witness ==
    /\ Checked
    /\ numCorrect = count
    /\ Len(out) = 3
    /\ out[2].kind = "congrats"
    /\ out[2].a = 2
    /\ out[2].b = 256
    /\ numGuesses = 0

\* C17 as stated: every usage error writes its message and the usage
\* synopsis to the error stream before the process ends.
C17_UsageOnErrorStream ==
    pc = "exit2" =>
        /\ Printed("usage") # {}
        /\ \A i \in Printed("usage") : out[i].stream = "stderr"

\* C17 amended: every usage error writes its message and the usage
\* synopsis, once, to standard output, the stream of the prompts and the
\* feedback, and nothing to another stream, before the process ends with
\* exit code 2.
C17_UsageOnStandardOutput ==
    pc = "exit2" =>
        /\ Len(out) = 1
        /\ out[1].kind = "usage"
        /\ out[1].stream = "stdout"
        /\ out[1].msg =
              (IF Len(args) > 2 THEN "Wrong number of arguments."
               ELSE IF \E i \in 1..Len(args) : ~AllDigits(args[i])
               THEN "Arguments must be digits."
               ELSE "Maximum digit argument out of range.")
        /\ exitCode = 2

\* C17 witness: ["abc"] ended after the usage was printed on standard
\* output
C17_Witness ==
    /\ pc = "exit2"
    /\ args = << <<"a", "b", "c">> >>
    /\ Len(out) = 1
    /\ out[1].stream = "stdout"
    /\ out[1].msg = "Arguments must be digits."

\* the positions of the session loop
InLoop == pc \in {"loop", "AwaitingGuess", "handle"}

\* C18: quitting is terminal and the only way out of the loop: a quit line
\* prints the farewell and ends the loop with the engine untouched, no
\* step follows it, and every other line (blank, invalid, wrong or
\* winning) leads back to the top of the loop and from there to
\* AwaitingGuess.
C18_QuitIsTheOnlyExit ==
    [][/\ pc # "Quitting"
       /\ InLoop => (InLoop' \/ pc' = "Quitting")
       /\ pc' = "Quitting" => pc = "handle" /\ IsQuit(guess)
       /\ (pc = "handle" /\ IsQuit(guess)) =>
              /\ pc' = "Quitting"
              /\ out' = <<Msg("thanks", "", 0, 0, <<>>)>>
              /\ exitCode' = 0
              /\ UNCHANGED <<numGuesses, code, selfCount, selfMaxDigit,
                             numCorrect, prompt, guess>>
       /\ (pc = "handle" /\ ~IsQuit(guess)) => pc' = "loop"
       /\ pc = "loop" => pc' = "AwaitingGuess"
       /\ pc = "AwaitingGuess" => pc' = "handle"]_vars

\* C18 witness: "Quitting" typed after one counted guess ended the loop
C18_Witness ==
    /\ pc = "Quitting"
    /\ guess = <<"Q", "u", "i", "t", "t", "i", "n", "g">>
    /\ numGuesses = 1
    /\ Len(out) = 1
    /\ out[1].kind = "thanks"
    /\ exitCode = 0

\* the line with whitespace added on both sides
Padded(g) == <<" ", "\t">> \o g \o <<"\t", " ", " ">>

\* C19: whitespace before and after a guess does not change its score:
\* the result of checkGuess on a line and its effect on guessCount are
\* those for the line trimmed and for the line with more whitespace
\* around it, in both parsing modes.
C19_OuterWhitespaceIgnored ==
    [][ReachesCheckGuess =>
          LET bare == CheckGuess(Strip(guess))
              more == CheckGuess(Padded(guess))
          IN  /\ SplitGuess(guess, selfMaxDigit)
                    = SplitGuess(Strip(guess), selfMaxDigit)
              /\ SplitGuess(guess, selfMaxDigit)
                    = SplitGuess(Padded(guess), selfMaxDigit)
              /\ numCorrect' = bare.ret
              /\ numCorrect' = more.ret
              /\ numCorrect' # count =>
                     /\ numGuesses' = bare.numGuesses
                     /\ numGuesses' = more.numGuesses]_vars

\* C19 witness: " 1 2 3 4<tab>" was scored as a valid guess of four digits
C19_Witness ==
    /\ Checked
    /\ guess = <<" ", "1", " ", "2", " ", "3", " ", "4", "\t">>
    /\ selfCount = 4
    /\ numCorrect = 3

\* the step prints the congratulation
Congratulates == Printed("congrats") = {} /\ Printed("congrats")' # {}

\* C20: the congratulation and the reset happen only in the step that
\* handles a valid guess equal to the code at every position: no other
\* step congratulates, and once the game exists its code changes and its
\* guessCount goes back to 0 only in such a step.
C20_WinOnlyOnFullMatch ==
    [][/\ Congratulates =>
              /\ ReachesCheckGuess
              /\ LET parsed == SplitGuess(guess, selfMaxDigit)
                 IN  /\ Len(parsed) = selfCount
                     /\ \A i \in 1..selfCount : parsed[i] = code[i]
       /\ (created /\ code' # code) => Congratulates
       /\ (created /\ numGuesses > 0 /\ numGuesses' = 0) => Congratulates
       /\ (created /\ numGuesses' < numGuesses) => numGuesses' = 0]_vars

\* C20 witness: the code 2 1 was guessed at the second try and replaced
C20_Witness ==
    /\ Checked
    /\ guess = <<"2", "1">>
    /\ selfCount = 2
    /\ numCorrect = 2
    /\ \E i \in Printed("congrats") : out[i].a = 2
    /\ code # <<2, 1>>

====
